---- MODULE Spec2Model ----
\* A model of the gphoto binding layer: the owning handles (Context, Camera,
\* FileMedia), the borrowed Port view, the adoption of native buffers, the
\* error mapping, and the native library seen as an environment that hands
\* out handles and status codes.
EXTENDS Integers, Sequences, FiniteSets, TLC

----------------------------------------------------------------------------
\* Bounds of the model.

\* native resources (contexts, cameras, file objects, descriptors, buffers)
\* acquired in one run
MaxAlloc == 4
\* calls that may be in progress together in the access-discipline model
MaxCalls == 2

----------------------------------------------------------------------------
\* Native status codes (gphoto2-sys), as the binding names them.

GP_OK == 0
GP_ERROR_BAD_PARAMETERS == -2
GP_ERROR_NO_MEMORY == -3
GP_ERROR_NOT_SUPPORTED == -6
GP_ERROR_CORRUPTED_DATA == -102
GP_ERROR_FILE_EXISTS == -103
GP_ERROR_MODEL_NOT_FOUND == -105
GP_ERROR_DIRECTORY_NOT_FOUND == -107
GP_ERROR_FILE_NOT_FOUND == -108
GP_ERROR_DIRECTORY_EXISTS == -109
GP_ERROR_CAMERA_BUSY == -110
GP_ERROR_PATH_NOT_ABSOLUTE == -111
GP_ERROR_CANCEL == -112
GP_ERROR_CAMERA_ERROR == -113
GP_ERROR_OS_FAILURE == -114
GP_ERROR_NO_SPACE == -115

\* the status codes drawn when the classification is exercised are
\* -CodeSpan .. 0
CodeSpan == 120

\* the statuses the native library is let to answer a call with
NativeStatuses == {GP_OK, GP_ERROR_NOT_SUPPORTED, GP_ERROR_CAMERA_BUSY}

\* the null pointer
NULL == 0

----------------------------------------------------------------------------
\* Error mapping (error.rs).

\* kind() with the arms of two neighbouring codes exchanged
kind_swapped(err) ==
    CASE err = GP_ERROR_CORRUPTED_DATA      -> "CorruptedData"
      [] err = GP_ERROR_FILE_EXISTS         -> "FileExists"
      [] err = GP_ERROR_MODEL_NOT_FOUND     -> "ModelNotFound"
      [] err = GP_ERROR_DIRECTORY_NOT_FOUND -> "FileNotFound"
      [] err = GP_ERROR_FILE_NOT_FOUND      -> "DirectoryNotFound"
      [] err = GP_ERROR_DIRECTORY_EXISTS    -> "DirectoryExists"
      [] err = GP_ERROR_CAMERA_BUSY         -> "CameraBusy"
      [] err = GP_ERROR_PATH_NOT_ABSOLUTE   -> "PathNotAbsolute"
      [] err = GP_ERROR_CANCEL              -> "Cancel"
      [] err = GP_ERROR_CAMERA_ERROR        -> "CameraError"
      [] err = GP_ERROR_OS_FAILURE          -> "OSFailure"
      [] err = GP_ERROR_NO_SPACE            -> "NoSpace"
      [] OTHER                              -> "Other"

\* Error::kind
kind(err) ==
    CASE err = GP_ERROR_CORRUPTED_DATA      -> "CorruptedData"
      [] err = GP_ERROR_FILE_EXISTS         -> "FileExists"
      [] err = GP_ERROR_MODEL_NOT_FOUND     -> "ModelNotFound"
      [] err = GP_ERROR_DIRECTORY_NOT_FOUND -> "DirectoryNotFound"
      [] err = GP_ERROR_FILE_NOT_FOUND      -> "FileNotFound"
      [] err = GP_ERROR_DIRECTORY_EXISTS    -> "DirectoryExists"
      [] err = GP_ERROR_CAMERA_BUSY         -> "CameraBusy"
      [] err = GP_ERROR_PATH_NOT_ABSOLUTE   -> "PathNotAbsolute"
      [] err = GP_ERROR_CANCEL              -> "Cancel"
      [] err = GP_ERROR_CAMERA_ERROR        -> "CameraError"
      [] err = GP_ERROR_OS_FAILURE          -> "OSFailure"
      [] err = GP_ERROR_NO_SPACE            -> "NoSpace"
      [] OTHER                              -> "Other"

\* a try_unsafe! that goes on whatever the status
try_unsafe_ignored(status) == TRUE

\* try_unsafe!: the operation goes on past the native call only on GP_OK;
\* any other status is returned at once as Err(from_libgphoto2(status))
try_unsafe(status) == status = GP_OK

\* the operation without its assertion
assert_ok_removed(status) == TRUE

\* assert_eq!(GP_OK, status): the operation goes on only on GP_OK; any other
\* status panics
assert_ok(status) == status = GP_OK

----------------------------------------------------------------------------
VARIABLES
    objs,       \* native objects: handle -> [type, unrefs, ctx, fd]
    nextId,     \* the next native handle the library hands out
    wild,       \* unref calls made on a pointer that names no native object
    contexts,   \* the live Context values (each the handle it owns)
    cameras,    \* the live Camera values (each the handle it owns)
    ports,      \* the live Port views: [inner, camera]
    medias,     \* the live FileMedia values (each the handle it owns)
    fs,         \* the file system: path -> [exists, data]
    fds,        \* descriptors opened: fd -> [path, byBinding, byLibrary]
    bufs,       \* native buffers: buf -> [what, owners, frees]
    strings,    \* the live String values returned by summary/manual/about
    vecs,       \* the live Vec<Storage> values returned by storage
    panicked,   \* the thread is unwinding from a panic
    last,       \* what the last operation did and returned
    calls,      \* calls in progress (access-discipline model)
    arg,        \* the input of the pure function being exercised
    ret         \* its result

vars == <<objs, nextId, wild, contexts, cameras, ports, medias, fs, fds, bufs,
          strings, vecs, panicked, last, calls, arg, ret>>

handleVars == <<objs, nextId, wild, contexts, cameras, ports, medias>>
fileVars == <<fs, fds>>
bufVars == <<bufs, strings, vecs>>
pureVars == <<calls, arg, ret>>

----------------------------------------------------------------------------
\* The native library's reference counting: every object is created holding
\* one reference, and the unref that drops it frees the object.

\* gp_context_new / gp_camera_new / gp_file_new_from_fd handing out handle h
NewObj(o, h, type, fd) ==
    [x \in DOMAIN o \cup {h} |->
        IF x = h THEN [type |-> type, unrefs |-> 0, ctx |-> NULL, fd |-> fd]
        ELSE o[x]]

\* gp_context_unref / gp_camera_unref / gp_file_unref called on pointer h
Unref(o, h) ==
    IF h \in DOMAIN o THEN [o EXCEPT ![h].unrefs = @ + 1] ELSE o

\* the same call, counted when the pointer names no native object
WildUnref(o, h) == IF h \in DOMAIN o THEN 0 ELSE 1

\* the value read from an output parameter the library did not write
\* (mem::uninitialized()): any pointer at all
Garbage == 0..MaxAlloc
Unwritten(wrote) == IF wrote THEN {NULL} ELSE Garbage

\* the file system the binding creates files in: the paths a caller names,
\* and what a path may hold before the run
NoFile == [exists |-> FALSE, data |-> <<>>]
EmptyFile == [exists |-> TRUE, data |-> <<>>]
Paths == {"a", "b"}
FileStates == {NoFile, [exists |-> TRUE, data |-> <<1>>]}
\* a path holding an interior NUL byte
NulPath == "nul"

\* the record an operation leaves in `last`
Result(op, sts, res, err) ==
    [op |-> op, sts |-> sts, res |-> res, err |-> err,
     kind |-> IF res = "err" THEN kind(err) ELSE "none",
     h |-> NULL, uninitRead |-> FALSE, stale |-> FALSE,
     path |-> "", pre |-> NoFile, errno |-> "", fd |-> 0, buf |-> 0]

\* the native resources acquired so far
Used == (nextId - 1) + Len(fds) + Len(bufs)

\* no thread is inside a call
Idle == [op |-> "idle", camera |-> NULL, context |-> NULL]

\* the state before the program has acquired anything
NothingAcquired ==
    /\ objs = <<>>
    /\ nextId = 1
    /\ wild = 0
    /\ contexts = {}
    /\ cameras = {}
    /\ ports = {}
    /\ medias = {}
    /\ fds = <<>>
    /\ bufs = <<>>
    /\ strings = {}
    /\ vecs = {}
    /\ panicked = FALSE
    /\ last = Result("none", <<>>, "ok", GP_OK)

Init ==
    /\ NothingAcquired
    /\ fs \in [Paths -> FileStates]
    /\ calls = <<>>
    /\ arg = 0
    /\ ret = "none"

----------------------------------------------------------------------------
\* Context (context.rs).

\* a null check that lets every pointer through
NonNullAlways(ptr) == TRUE

\* a null check the wrong way round
NonNullInverted(ptr) == ptr = NULL

\* !ptr.is_null()
NonNull(ptr) == ptr # NULL

\* Context::new: gp_context_new answers a fresh handle or the null pointer
ContextNew ==
    /\ ~panicked
    /\ Used < MaxAlloc
    /\ \E ptr \in {NULL, nextId} :
        /\ objs' = IF ptr # NULL THEN NewObj(objs, ptr, "context", 0) ELSE objs
        /\ nextId' = IF ptr # NULL THEN nextId + 1 ELSE nextId
        /\ IF NonNull(ptr)
           THEN /\ contexts' = contexts \cup {ptr}
                /\ last' = [Result("Context::new", <<>>, "ok", GP_OK) EXCEPT !.h = ptr]
           ELSE /\ UNCHANGED contexts
                /\ last' = [Result("Context::new", <<>>, "err", GP_ERROR_NO_MEMORY)
                               EXCEPT !.h = ptr]
    /\ UNCHANGED <<wild, cameras, ports, medias, fileVars, bufVars, panicked, pureVars>>

\* impl Drop for Context
ContextDrop(o, h) == Unref(o, h)

DropContext ==
    /\ \E x \in contexts :
        /\ objs' = ContextDrop(objs, x)
        /\ wild' = wild + WildUnref(objs, x)
        /\ contexts' = contexts \ {x}
        /\ last' = Result("drop", <<>>, "ok", GP_OK)
    /\ UNCHANGED <<nextId, cameras, ports, medias, fileVars, bufVars, panicked, pureVars>>

----------------------------------------------------------------------------
\* Camera (camera.rs) and Port (port.rs).

\* a native object that exists and has not been freed
Live(o, h) == h \in DOMAIN o /\ o[h].unrefs = 0

\* a Camera whose destruction releases nothing
CameraDropLeak(o, h) == o

\* impl Drop for Camera
CameraDrop(o, h) == Unref(o, h)

\* gp_camera_init(camera, context) answering st: the camera is opened
\* against the context
CameraInit(o, h, ctx, st) ==
    IF st = GP_OK /\ h \in DOMAIN o /\ o[h].type = "camera"
    THEN [o EXCEPT ![h].ctx = ctx] ELSE o

\* Camera::autodetect(context: &mut Context)
CameraAutodetect ==
    /\ ~panicked
    /\ Used < MaxAlloc
    /\ \E ctx \in contexts, st1 \in NativeStatuses :
        LET wrote == st1 = GP_OK
            o1 == IF wrote THEN NewObj(objs, nextId, "camera", 0) ELSE objs
            h == IF wrote THEN nextId ELSE NULL
        IN  /\ nextId' = IF wrote THEN nextId + 1 ELSE nextId
            /\ IF ~try_unsafe(st1)
               THEN /\ objs' = o1
                    /\ last' = [Result("autodetect", <<st1>>, "err", st1)
                                    EXCEPT !.h = h, !.stale = ~Live(objs, ctx)]
                    /\ UNCHANGED <<wild, cameras>>
               ELSE \E st2 \in NativeStatuses, g \in Unwritten(wrote) :
                    LET ptr == IF wrote THEN nextId ELSE g
                        o2 == CameraInit(o1, ptr, ctx, st2)
                    IN  IF ~try_unsafe(st2)
                        THEN /\ objs' = CameraDrop(o2, ptr)
                             /\ wild' = wild + WildUnref(o2, ptr)
                             /\ UNCHANGED cameras
                             /\ last' = [Result("autodetect", <<st1, st2>>, "err", st2)
                                    EXCEPT !.h = h, !.uninitRead = ~wrote,
                                           !.stale = ~Live(objs, ctx)]
                        ELSE /\ objs' = o2
                             /\ cameras' = cameras \cup {ptr}
                             /\ UNCHANGED wild
                             /\ last' = [Result("autodetect", <<st1, st2>>, "ok", GP_OK)
                                    EXCEPT !.h = h, !.uninitRead = ~wrote,
                                           !.stale = ~Live(objs, ctx)]
    /\ UNCHANGED <<contexts, ports, medias, fileVars, bufVars, panicked, pureVars>>

\* a Port view that does not borrow the camera
from_libgphoto2_unbound(camera, ptr) == [inner |-> ptr, camera |-> NULL]

\* port::from_libgphoto2(_camera: &'a Camera, ptr) -> Port<'a>: the view
\* holds the pointer and borrows the camera for as long as it lives
from_libgphoto2(camera, ptr) == [inner |-> ptr, camera |-> camera]

\* a shared borrow of the camera is held by a live Port view
CameraBorrowed(c) == \E p \in ports : p.camera = c

\* Camera::port(&self)
CameraPort ==
    /\ ~panicked
    /\ \E c \in cameras, st \in NativeStatuses : \E g \in Unwritten(st = GP_OK) :
        LET wrote == st = GP_OK
            ptr == IF wrote THEN c ELSE g
        IN  IF ~assert_ok(st)
            THEN /\ panicked' = TRUE
                 /\ UNCHANGED ports
                 /\ last' = [Result("port", <<st>>, "panic", st) EXCEPT !.h = c]
            ELSE /\ ports' = ports \cup {from_libgphoto2(c, ptr)}
                 /\ UNCHANGED panicked
                 /\ last' = [Result("port", <<st>>, "ok", GP_OK)
                                EXCEPT !.h = c, !.uninitRead = ~wrote]
    /\ UNCHANGED <<objs, nextId, wild, contexts, cameras, medias, fileVars, bufVars, pureVars>>

PortAccessors == {"port_type", "name", "path"}

\* Port::port_type / Port::name / Port::path
PortRead ==
    /\ ~panicked
    /\ \E p \in ports, acc \in PortAccessors, st \in NativeStatuses :
        IF ~assert_ok(st)
        THEN /\ panicked' = TRUE
             /\ last' = [Result(acc, <<st>>, "panic", st)
                            EXCEPT !.h = p.inner, !.stale = ~Live(objs, p.inner)]
        ELSE /\ UNCHANGED panicked
             /\ last' = [Result(acc, <<st>>, "ok", GP_OK)
                            EXCEPT !.h = p.inner, !.stale = ~Live(objs, p.inner),
                                   !.uninitRead = st # GP_OK]
    /\ UNCHANGED <<handleVars, fileVars, bufVars, pureVars>>

\* the Port view goes out of scope
DropPort ==
    /\ \E p \in ports : ports' = ports \ {p}
    /\ last' = Result("drop", <<>>, "ok", GP_OK)
    /\ UNCHANGED <<objs, nextId, wild, contexts, cameras, medias, fileVars, bufVars,
                   panicked, pureVars>>

\* Camera::abilities(&self)
CameraAbilities ==
    /\ ~panicked
    /\ \E c \in cameras, st \in NativeStatuses :
        IF ~assert_ok(st)
        THEN /\ panicked' = TRUE
             /\ last' = [Result("abilities", <<st>>, "panic", st) EXCEPT !.h = c]
        ELSE /\ UNCHANGED panicked
             /\ last' = [Result("abilities", <<st>>, "ok", GP_OK)
                            EXCEPT !.h = c, !.uninitRead = st # GP_OK]
    /\ UNCHANGED <<handleVars, fileVars, bufVars, pureVars>>

\* the Camera value goes out of scope; a Port view borrowing it must be gone
DropCamera ==
    /\ \E c \in cameras :
        /\ ~CameraBorrowed(c)
        /\ objs' = CameraDrop(objs, c)
        /\ wild' = wild + WildUnref(objs, c)
        /\ cameras' = cameras \ {c}
    /\ last' = Result("drop", <<>>, "ok", GP_OK)
    /\ UNCHANGED <<nextId, contexts, ports, medias, fileVars, bufVars, panicked, pureVars>>

----------------------------------------------------------------------------
\* Integers and text as the decoders see them.

\* a & b on non-negative integers
RECURSIVE BitAnd(_, _)
BitAnd(a, b) ==
    IF a = 0 \/ b = 0 THEN 0
    ELSE ((a % 2) * (b % 2)) + 2 * BitAnd(a \div 2, b \div 2)

\* a | b on non-negative integers
RECURSIVE BitOr(_, _)
BitOr(a, b) ==
    IF a = 0 THEN b
    ELSE IF b = 0 THEN a
    ELSE (IF a % 2 = 1 \/ b % 2 = 1 THEN 1 ELSE 0) + 2 * BitOr(a \div 2, b \div 2)

\* the bytes the sample buffers are made of: NUL, 'A', the two bytes of a
\* two-byte UTF-8 sequence, and a byte that no UTF-8 text holds
Bytes == {0, 65, 195, 255, 169}
IsAscii(b) == b < 128
IsLead2(b) == b >= 194 /\ b <= 223
IsCont(b) == b >= 128 /\ b <= 191

\* CStr::from_ptr(p).to_bytes(): the bytes before the first NUL
RECURSIVE to_bytes(_)
to_bytes(buf) ==
    IF buf = <<>> \/ Head(buf) = 0 THEN <<>>
    ELSE <<Head(buf)>> \o to_bytes(Tail(buf))

\* str::from_utf8 accepting the bytes
RECURSIVE ValidUtf8(_)
ValidUtf8(bs) ==
    IF bs = <<>> THEN TRUE
    ELSE IF IsAscii(bs[1]) THEN ValidUtf8(Tail(bs))
    ELSE IF IsLead2(bs[1]) /\ Len(bs) >= 2 /\ IsCont(bs[2]) THEN ValidUtf8(Tail(Tail(bs)))
    ELSE FALSE

\* the replacement character U+FFFD
Replacement == 65533

\* String::from_utf8_lossy: the code points of the text, each invalid byte
\* replaced by U+FFFD
RECURSIVE from_utf8_lossy(_)
from_utf8_lossy(bs) ==
    IF bs = <<>> THEN <<>>
    ELSE IF IsAscii(bs[1]) THEN <<bs[1]>> \o from_utf8_lossy(Tail(bs))
    ELSE IF IsLead2(bs[1]) /\ Len(bs) >= 2 /\ IsCont(bs[2])
         THEN <<(bs[1] - 192) * 64 + (bs[2] - 128)>> \o from_utf8_lossy(Tail(Tail(bs)))
    ELSE <<Replacement>> \o from_utf8_lossy(Tail(bs))

\* Option<T>
None == [some |-> FALSE]
Some(v) == [some |-> TRUE, value |-> v]

----------------------------------------------------------------------------
\* Buffers handed over by the native call: the storage array and the texts
\* (camera.rs).

\* Camera::storage adopting the array the library allocated: the pointer and
\* the length go into Vec::from_raw_parts and nothing else keeps them
StorageArray(wrote) ==
    [what |-> IF wrote THEN "array" ELSE "uninit",
     owners |-> {"Vec"}, released |-> <<>>]

\* Camera::storage(&mut self, context: &mut Context)
CameraStorage ==
    /\ ~panicked
    /\ Used < MaxAlloc
    /\ \E c \in cameras, ctx \in contexts, st \in NativeStatuses :
        /\ ~CameraBorrowed(c)
        /\ IF ~try_unsafe(st)
           THEN /\ UNCHANGED bufVars
                /\ last' = [Result("storage", <<st>>, "err", st)
                               EXCEPT !.h = c, !.stale = ~Live(objs, ctx)]
           ELSE /\ bufs' = Append(bufs, StorageArray(st = GP_OK))
                /\ vecs' = vecs \cup {Len(bufs) + 1}
                /\ UNCHANGED strings
                /\ last' = [Result("storage", <<st>>, "ok", GP_OK)
                               EXCEPT !.h = c, !.buf = Len(bufs) + 1,
                                      !.uninitRead = st # GP_OK,
                                      !.stale = ~Live(objs, ctx)]
    /\ UNCHANGED <<handleVars, fileVars, panicked, pureVars>>

\* util::camera_text_to_string(mut camera_text: CameraText): the text is the
\* array inside the CameraText passed by value, that is storage of the
\* local; Vec::from_raw_parts takes the same bytes as a heap allocation of
\* its own. String::from_utf8 either keeps the Vec inside the String
\* returned or, for invalid text, hands it back in an error that map_err
\* drops; the local's storage goes when the function returns.
camera_text_to_string(wrote, text) ==
    [what |-> IF wrote THEN "text" ELSE "uninit",
     owners |-> {"CameraText", "Vec"},
     released |-> IF ValidUtf8(to_bytes(text)) THEN <<"CameraText">>
                  ELSE <<"Vec", "CameraText">>]

\* two texts the library may write: one that is UTF-8 and one that is not
SampleTexts == {<<65, 0, 65>>, <<255, 65, 0>>}

TextOps == {"summary", "manual", "about_driver"}

\* Camera::summary / Camera::manual / Camera::about_driver
\* (&mut self, context: &mut Context)
CameraText ==
    /\ ~panicked
    /\ Used < MaxAlloc
    /\ \E c \in cameras, ctx \in contexts, op \in TextOps, st \in NativeStatuses :
        /\ ~CameraBorrowed(c)
        /\ IF ~try_unsafe(st)
           THEN /\ UNCHANGED bufVars
                /\ last' = [Result(op, <<st>>, "err", st)
                               EXCEPT !.h = c, !.stale = ~Live(objs, ctx)]
           ELSE \E text \in SampleTexts :
                LET valid == ValidUtf8(to_bytes(text)) IN
                /\ bufs' = Append(bufs, camera_text_to_string(st = GP_OK, text))
                /\ strings' = IF valid THEN strings \cup {Len(bufs) + 1} ELSE strings
                /\ UNCHANGED vecs
                /\ last' = [Result(op, <<st>>, IF valid THEN "ok" ELSE "err",
                                   IF valid THEN GP_OK ELSE GP_ERROR_CORRUPTED_DATA)
                               EXCEPT !.h = c, !.buf = Len(bufs) + 1,
                                      !.uninitRead = st # GP_OK,
                                      !.stale = ~Live(objs, ctx)]
    /\ UNCHANGED <<handleVars, fileVars, panicked, pureVars>>

\* the owner of a buffer goes out of scope and frees it
Release(b, who) == [bufs EXCEPT ![b].released = Append(@, who)]

\* the String returned by summary / manual / about_driver is dropped
DropString ==
    /\ \E b \in strings :
        /\ bufs' = Release(b, "Vec")
        /\ strings' = strings \ {b}
    /\ last' = Result("drop", <<>>, "ok", GP_OK)
    /\ UNCHANGED <<handleVars, fileVars, vecs, panicked, pureVars>>

\* the Vec<Storage> returned by storage is dropped
DropVec ==
    /\ \E b \in vecs :
        /\ bufs' = Release(b, "Vec")
        /\ vecs' = vecs \ {b}
    /\ last' = Result("drop", <<>>, "ok", GP_OK)
    /\ UNCHANGED <<handleVars, fileVars, strings, panicked, pureVars>>

----------------------------------------------------------------------------
\* FileMedia (media.rs).

\* what libc::open(path, O_CREAT|O_EXCL|O_RDWR, 0o644) may answer on a path
\* that does not exist: a descriptor, or a failure of another cause
OpenOutcomes == {"ok", "ENOENT", "EACCES", "EMFILE"}

\* open without O_EXCL: a path that exists is opened as it is
open_noexcl(pre, outcome) == outcome

\* libc::open(path, O_CREAT|O_EXCL|O_RDWR, 0o644): O_EXCL refuses a path
\* that exists; "ok" stands for a descriptor >= 0, anything else for -1
open_excl(pre, outcome) == IF pre.exists THEN "EEXIST" ELSE outcome

\* a create that wraps the file object whatever the status
FileAcceptedAlways(status) == TRUE

\* the match on gp_file_new_from_fd's status: GP_OK wraps the file
\* object, anything else closes the descriptor and returns the error
FileAccepted(status) == status = GP_OK

\* the error FileMedia::create returns when open answers fd < 0
OpenFailed(errno) == GP_ERROR_FILE_EXISTS

\* impl Drop for FileMedia
FileMediaDrop(o, h) == Unref(o, h)

\* an error path that leaves the descriptor open
CloseByBindingSkipped(f, fd) == f

\* libc::close(fd) called by the binding
CloseByBinding(f, fd) == [f EXCEPT ![fd].byBinding = @ + 1]

\* gp_file_unref dropping the last reference of a file object made from a
\* descriptor: the library frees the object and closes the descriptor
CloseByLibrary(f, o, h) ==
    IF Live(o, h) /\ o[h].type = "file"
    THEN [f EXCEPT ![o[h].fd].byLibrary = @ + 1] ELSE f

\* FileMedia::create(path)
FileMediaCreate ==
    /\ ~panicked
    /\ Used + 2 <= MaxAlloc
    /\ \E path \in Paths \cup {NulPath} :
        IF path = NulPath
        THEN /\ last' = [Result("create", <<>>, "err", GP_ERROR_BAD_PARAMETERS)
                            EXCEPT !.path = path]
             /\ UNCHANGED <<objs, nextId, wild, medias, fileVars>>
        ELSE \E outcome \in OpenOutcomes :
             LET pre == fs[path]
                 errno == open_excl(pre, outcome)
                 fd == Len(fds) + 1
             IN  IF errno # "ok"
                 THEN /\ last' = [Result("create", <<>>, "err", OpenFailed(errno))
                                     EXCEPT !.path = path, !.pre = pre, !.errno = errno]
                      /\ UNCHANGED <<objs, nextId, wild, medias, fileVars>>
                 ELSE \E st \in NativeStatuses : \E g \in Unwritten(st = GP_OK) :
                      LET wrote == st = GP_OK
                          ptr == IF wrote THEN nextId ELSE g
                          opened == Append(fds, [path |-> path, byBinding |-> 0,
                                                 byLibrary |-> 0])
                      IN  /\ fs' = [fs EXCEPT ![path] = IF pre.exists THEN pre ELSE EmptyFile]
                          /\ objs' = IF wrote THEN NewObj(objs, nextId, "file", fd)
                                     ELSE objs
                          /\ nextId' = IF wrote THEN nextId + 1 ELSE nextId
                          /\ UNCHANGED wild
                          /\ IF FileAccepted(st)
                             THEN /\ fds' = opened
                                  /\ medias' = medias \cup {ptr}
                                  /\ last' = [Result("create", <<st>>, "ok", GP_OK)
                                        EXCEPT !.path = path, !.pre = pre, !.errno = errno,
                                               !.fd = fd, !.h = ptr,
                                               !.uninitRead = ~wrote]
                             ELSE /\ fds' = CloseByBinding(opened, fd)
                                  /\ UNCHANGED medias
                                  /\ last' = [Result("create", <<st>>, "err", st)
                                        EXCEPT !.path = path, !.pre = pre, !.errno = errno,
                                               !.fd = fd]
    /\ UNCHANGED <<contexts, cameras, ports, bufVars, panicked, pureVars>>

\* the FileMedia value goes out of scope
DropMedia ==
    /\ \E m \in medias :
        /\ objs' = FileMediaDrop(objs, m)
        /\ wild' = wild + WildUnref(objs, m)
        /\ fds' = IF FileMediaDrop(objs, m) = objs THEN fds
                  ELSE CloseByLibrary(fds, objs, m)
        /\ medias' = medias \ {m}
    /\ last' = Result("drop", <<>>, "ok", GP_OK)
    /\ UNCHANGED <<nextId, contexts, cameras, ports, fs, bufVars, panicked, pureVars>>

----------------------------------------------------------------------------
\* Storage (storage.rs): the accessors of one CameraStorageInformation.

GP_STORAGEINFO_BASE == 1
GP_STORAGEINFO_LABEL == 2
GP_STORAGEINFO_DESCRIPTION == 4
GP_STORAGEINFO_ACCESS == 8
GP_STORAGEINFO_STORAGETYPE == 16
GP_STORAGEINFO_FILESYSTEMTYPE == 32
GP_STORAGEINFO_MAXCAPACITY == 64
GP_STORAGEINFO_FREESPACEKBYTES == 128
GP_STORAGEINFO_FREESPACEIMAGES == 256

GP_STORAGEINFO_ST_UNKNOWN == 0
GP_STORAGEINFO_ST_FIXED_ROM == 1
GP_STORAGEINFO_ST_REMOVABLE_ROM == 2
GP_STORAGEINFO_ST_FIXED_RAM == 3
GP_STORAGEINFO_ST_REMOVABLE_RAM == 4

GP_STORAGEINFO_FST_UNDEFINED == 0
GP_STORAGEINFO_FST_GENERICFLAT == 1
GP_STORAGEINFO_FST_GENERICHIERARCHICAL == 2
GP_STORAGEINFO_FST_DCF == 3

GP_STORAGEINFO_AC_READWRITE == 0
GP_STORAGEINFO_AC_READONLY == 1
GP_STORAGEINFO_AC_READONLY_WITH_DELETE == 2

\* what a match without a fallback arm may do on a value that is none of
\* the enum's constants: the behaviour is undefined, so any arm may be
\* taken or the program may stop
Undefined(variants) == variants \cup {"undefined"}

StorageTypes == {"FixedRom", "RemovableRom", "FixedRam", "RemoveableRam", "Unknown"}
FilesystemTypes == {"Flat", "Hierarchical", "DCF", "Unknown"}
AccessTypes == {"ReadWrite", "ReadOnly", "ReadDelete"}

\* the match in Storage::storage_type: the outcomes it may have
match_storage_type(v) ==
    CASE v = GP_STORAGEINFO_ST_FIXED_ROM     -> {"FixedRom"}
      [] v = GP_STORAGEINFO_ST_REMOVABLE_ROM -> {"RemovableRom"}
      [] v = GP_STORAGEINFO_ST_FIXED_RAM     -> {"FixedRam"}
      [] v = GP_STORAGEINFO_ST_REMOVABLE_RAM -> {"RemoveableRam"}
      [] v = GP_STORAGEINFO_ST_UNKNOWN       -> {"Unknown"}
      [] OTHER                               -> Undefined(StorageTypes)

\* the match in Storage::filesystem_type
match_fstype(v) ==
    CASE v = GP_STORAGEINFO_FST_GENERICFLAT         -> {"Flat"}
      [] v = GP_STORAGEINFO_FST_GENERICHIERARCHICAL -> {"Hierarchical"}
      [] v = GP_STORAGEINFO_FST_DCF                 -> {"DCF"}
      [] v = GP_STORAGEINFO_FST_UNDEFINED           -> {"Unknown"}
      [] OTHER                                      -> Undefined(FilesystemTypes)

\* the match in Storage::access_type
match_access(v) ==
    CASE v = GP_STORAGEINFO_AC_READWRITE            -> {"ReadWrite"}
      [] v = GP_STORAGEINFO_AC_READONLY             -> {"ReadOnly"}
      [] v = GP_STORAGEINFO_AC_READONLY_WITH_DELETE -> {"ReadDelete"}
      [] OTHER                                      -> Undefined(AccessTypes)

\* an accessor that forgets the presence mask
label_unguarded(inner) == {Some(from_utf8_lossy(to_bytes(inner.label)))}

\* each accessor gives the set of results it may return
base_dir(inner) ==
    IF BitAnd(inner.fields, GP_STORAGEINFO_BASE) # 0
    THEN {Some(from_utf8_lossy(to_bytes(inner.basedir)))} ELSE {None}

label(inner) ==
    IF BitAnd(inner.fields, GP_STORAGEINFO_LABEL) # 0
    THEN {Some(from_utf8_lossy(to_bytes(inner.label)))} ELSE {None}

description(inner) ==
    IF BitAnd(inner.fields, GP_STORAGEINFO_DESCRIPTION) # 0
    THEN {Some(from_utf8_lossy(to_bytes(inner.description)))} ELSE {None}

storage_type(inner) ==
    IF BitAnd(inner.fields, GP_STORAGEINFO_STORAGETYPE) # 0
    THEN {Some(v) : v \in match_storage_type(inner.storage_type)} ELSE {None}

filesystem_type(inner) ==
    IF BitAnd(inner.fields, GP_STORAGEINFO_FILESYSTEMTYPE) # 0
    THEN {Some(v) : v \in match_fstype(inner.fstype)} ELSE {None}

access_type(inner) ==
    IF BitAnd(inner.fields, GP_STORAGEINFO_ACCESS) # 0
    THEN {Some(v) : v \in match_access(inner.access)} ELSE {None}

capacity_kbytes(inner) ==
    IF BitAnd(inner.fields, GP_STORAGEINFO_MAXCAPACITY) # 0
    THEN {Some(inner.capacitykbytes)} ELSE {None}

free_kbytes(inner) ==
    IF BitAnd(inner.fields, GP_STORAGEINFO_FREESPACEKBYTES) # 0
    THEN {Some(inner.freekbytes)} ELSE {None}

free_images(inner) ==
    IF BitAnd(inner.fields, GP_STORAGEINFO_FREESPACEIMAGES) # 0
    THEN {Some(inner.freeimages)} ELSE {None}

StorageFields == {"base_dir", "label", "description", "storage_type",
                  "filesystem_type", "access_type", "capacity_kbytes",
                  "free_kbytes", "free_images"}

\* impl Storage: the accessor named f
Accessor(f, inner) ==
    CASE f = "base_dir"        -> base_dir(inner)
      [] f = "label"           -> label(inner)
      [] f = "description"     -> description(inner)
      [] f = "storage_type"    -> storage_type(inner)
      [] f = "filesystem_type" -> filesystem_type(inner)
      [] f = "access_type"     -> access_type(inner)
      [] f = "capacity_kbytes" -> capacity_kbytes(inner)
      [] f = "free_kbytes"     -> free_kbytes(inner)
      [] f = "free_images"     -> free_images(inner)

\* the number of presence bits the library defines
FieldBits == 9

\* what the slots of a CameraStorageInformation may hold, whatever the mask
\* says: zeroes, values the library would write, and leftovers
SlotSamples ==
    {[basedir |-> <<0, 0, 0>>, label |-> <<0, 0, 0>>, description |-> <<0, 0, 0>>,
      storage_type |-> 0, fstype |-> 0, access |-> 0,
      capacitykbytes |-> 0, freekbytes |-> 0, freeimages |-> 0],
     [basedir |-> <<65, 0, 65>>, label |-> <<195, 169, 0>>, description |-> <<65, 65, 0>>,
      storage_type |-> 4, fstype |-> 3, access |-> 2,
      capacitykbytes |-> 3, freekbytes |-> 2, freeimages |-> 1],
     [basedir |-> <<255, 65, 0>>, label |-> <<169, 0, 0>>, description |-> <<195, 0, 65>>,
      storage_type |-> 7, fstype |-> 7, access |-> 7,
      capacitykbytes |-> 1, freekbytes |-> 1, freeimages |-> 1]}

\* a CameraStorageInformation as the library left it
StorageInfo(mask, slots) ==
    [fields |-> mask,
     basedir |-> slots.basedir, label |-> slots.label, description |-> slots.description,
     storage_type |-> slots.storage_type, fstype |-> slots.fstype, access |-> slots.access,
     capacitykbytes |-> slots.capacitykbytes, freekbytes |-> slots.freekbytes,
     freeimages |-> slots.freeimages]

\* the state of the handles when only a pure function is exercised
Quiet ==
    /\ NothingAcquired
    /\ fs = [p \in Paths |-> NoFile]
    /\ calls = <<>>

InitStorage ==
    /\ Quiet
    /\ \E mask \in 0..(2^FieldBits - 1), slots \in SlotSamples :
          arg = [f |-> "", inner |-> StorageInfo(mask, slots)]
    /\ ret = <<>>

\* one accessor of the Storage is called
StorageAccessor ==
    /\ ret = <<>>
    /\ \E f \in StorageFields :
        /\ arg' = [arg EXCEPT !.f = f]
        /\ \E r \in Accessor(f, arg.inner) : ret' = <<r>>
    /\ UNCHANGED <<handleVars, fileVars, bufVars, panicked, last, calls>>

NextStorage == StorageAccessor

SpecStorage == InitStorage /\ [][NextStorage]_vars

----------------------------------------------------------------------------
\* Abilities (abilities.rs): the bit masks decoded into sets of flags.

GP_PORT_SERIAL == 1
GP_PORT_USB == 4
GP_PORT_DISK == 8
GP_PORT_PTPIP == 16
GP_PORT_USB_DISK_DIRECT == 32
GP_PORT_USB_SCSI == 64

GP_OPERATION_CAPTURE_IMAGE == 1
GP_OPERATION_CAPTURE_VIDEO == 2
GP_OPERATION_CAPTURE_AUDIO == 4
GP_OPERATION_CAPTURE_PREVIEW == 8
GP_OPERATION_CONFIG == 16
GP_OPERATION_TRIGGER_CAPTURE == 32

GP_FILE_OPERATION_DELETE == 2
GP_FILE_OPERATION_PREVIEW == 8
GP_FILE_OPERATION_RAW == 16
GP_FILE_OPERATION_AUDIO == 32
GP_FILE_OPERATION_EXIF == 64

GP_FOLDER_OPERATION_DELETE_ALL == 1
GP_FOLDER_OPERATION_PUT_FILE == 2
GP_FOLDER_OPERATION_MAKE_DIR == 4
GP_FOLDER_OPERATION_REMOVE_DIR == 8

\* if mask & bit != 0 { set.insert(flag) }
Insert(mask, bit, flag) == IF BitAnd(mask, bit) # 0 THEN {flag} ELSE {}

\* a decoder that compares the mask with the bit instead of testing the bit
port_types_exact(port) ==
    UNION {IF port = b[1] THEN {b[2]} ELSE {} :
           b \in {<<GP_PORT_SERIAL, "Serial">>, <<GP_PORT_USB, "USB">>,
                  <<GP_PORT_DISK, "Disk">>, <<GP_PORT_PTPIP, "PTPIP">>,
                  <<GP_PORT_USB_DISK_DIRECT, "Direct">>, <<GP_PORT_USB_SCSI, "SCSI">>}}

\* Abilities::port_types
port_types(port) ==
    Insert(port, GP_PORT_SERIAL, "Serial")
    \cup Insert(port, GP_PORT_USB, "USB")
    \cup Insert(port, GP_PORT_DISK, "Disk")
    \cup Insert(port, GP_PORT_PTPIP, "PTPIP")
    \cup Insert(port, GP_PORT_USB_DISK_DIRECT, "Direct")
    \cup Insert(port, GP_PORT_USB_SCSI, "SCSI")

\* Abilities::camera_operations
camera_operations(operations) ==
    Insert(operations, GP_OPERATION_CONFIG, "Config")
    \cup Insert(operations, GP_OPERATION_CAPTURE_IMAGE, "CaptureImage")
    \cup Insert(operations, GP_OPERATION_CAPTURE_VIDEO, "CaptureVideo")
    \cup Insert(operations, GP_OPERATION_CAPTURE_AUDIO, "CaptureAudio")
    \cup Insert(operations, GP_OPERATION_CAPTURE_PREVIEW, "CapturePreview")
    \cup Insert(operations, GP_OPERATION_TRIGGER_CAPTURE, "TriggerCapture")

\* a decoder that takes the lowest bit, which the library leaves undefined,
\* for the Delete bit
file_operations_shifted(file_operations_mask) ==
    Insert(file_operations_mask, 1, "Delete")
    \cup Insert(file_operations_mask, GP_FILE_OPERATION_PREVIEW, "Preview")
    \cup Insert(file_operations_mask, GP_FILE_OPERATION_RAW, "Raw")
    \cup Insert(file_operations_mask, GP_FILE_OPERATION_AUDIO, "Audio")
    \cup Insert(file_operations_mask, GP_FILE_OPERATION_EXIF, "EXIF")

\* Abilities::file_operations
file_operations(file_operations_mask) ==
    Insert(file_operations_mask, GP_FILE_OPERATION_DELETE, "Delete")
    \cup Insert(file_operations_mask, GP_FILE_OPERATION_PREVIEW, "Preview")
    \cup Insert(file_operations_mask, GP_FILE_OPERATION_RAW, "Raw")
    \cup Insert(file_operations_mask, GP_FILE_OPERATION_AUDIO, "Audio")
    \cup Insert(file_operations_mask, GP_FILE_OPERATION_EXIF, "EXIF")

\* Abilities::folder_operations
folder_operations(folder_operations_mask) ==
    Insert(folder_operations_mask, GP_FOLDER_OPERATION_DELETE_ALL, "DeleteAll")
    \cup Insert(folder_operations_mask, GP_FOLDER_OPERATION_PUT_FILE, "PutFile")
    \cup Insert(folder_operations_mask, GP_FOLDER_OPERATION_MAKE_DIR, "MakeDirectory")
    \cup Insert(folder_operations_mask, GP_FOLDER_OPERATION_REMOVE_DIR, "RemoveDirectory")

Decoders == {"port_types", "camera_operations", "file_operations", "folder_operations"}

\* impl Abilities: the decoder named d
Decode(d, mask) ==
    CASE d = "port_types"        -> port_types(mask)
      [] d = "camera_operations" -> camera_operations(mask)
      [] d = "file_operations"   -> file_operations(mask)
      [] d = "folder_operations" -> folder_operations(mask)

\* the number of low bits of a mask that are explored; the known bits are
\* the lowest seven
MaskBits == 8

Masks == 0..(2^MaskBits - 1)
SingleBits == {2^i : i \in 0..(MaskBits - 1)}

InitMask ==
    /\ Quiet
    /\ \E d \in Decoders, m \in Masks, b \in SingleBits :
          arg = [d |-> d, m |-> m, b |-> b]
    /\ ret = <<>>

\* the decoder is applied to the mask and to the mask with one more bit set
DecodeMask ==
    /\ ret = <<>>
    /\ ret' = <<[of_m |-> Decode(arg.d, arg.m),
                 of_mb |-> Decode(arg.d, BitOr(arg.m, arg.b))]>>
    /\ UNCHANGED <<handleVars, fileVars, bufVars, panicked, last, calls, arg>>

NextMask == DecodeMask

SpecMask == InitMask /\ [][NextMask]_vars

----------------------------------------------------------------------------
\* Abilities::speeds: the serial speeds read from the fixed-size array.

\* the length of the speed array
SpeedLen == 4

\* the width of usize, scaled down with the entries
UsizeBits == 6

\* the entries an array of c_int may hold: zero, speeds, and a negative
\* value
SpeedValues == {0 - 1, 0, 1, 2}

\* n as usize: a c_int is sign-extended to the width of usize
as_usize(n) == n % (2^UsizeBits)

\* iter().take_while(|&n| *n != 0)
RECURSIVE take_while_nonzero(_)
take_while_nonzero(a) ==
    IF a = <<>> \/ Head(a) = 0 THEN <<>>
    ELSE <<Head(a)>> \o take_while_nonzero(Tail(a))

\* a decoder that skips the zero entries instead of stopping at the first
speeds_filtered(speed) ==
    LET RECURSIVE filter(_)
        filter(a) == IF a = <<>> THEN <<>>
                     ELSE IF Head(a) = 0 THEN filter(Tail(a))
                     ELSE <<as_usize(Head(a))>> \o filter(Tail(a))
    IN filter(speed)

\* Abilities::speeds
speeds(speed) ==
    LET taken == take_while_nonzero(speed)
    IN [i \in 1..Len(taken) |-> as_usize(taken[i])]

InitSpeeds ==
    /\ Quiet
    /\ arg \in [1..SpeedLen -> SpeedValues]
    /\ ret = <<>>

\* speeds is called on the Abilities
Speeds ==
    /\ ret = <<>>
    /\ ret' = <<speeds(arg)>>
    /\ UNCHANGED <<handleVars, fileVars, bufVars, panicked, last, calls, arg>>

NextSpeeds == Speeds

SpecSpeeds == InitSpeeds /\ [][NextSpeeds]_vars

----------------------------------------------------------------------------
\* The decoders of a single native value into a variant: Port::port_type,
\* Storage::storage_type / filesystem_type / access_type,
\* Abilities::device_type / driver_status.

GP_PORT_NONE == 0

GP_DEVICE_STILL_CAMERA == 0
GP_DEVICE_AUDIO_PLAYER == 1

GP_DRIVER_STATUS_PRODUCTION == 0
GP_DRIVER_STATUS_TESTING == 1
GP_DRIVER_STATUS_EXPERIMENTAL == 2
GP_DRIVER_STATUS_DEPRECATED == 3

PortTypes == {"Serial", "USB", "Disk", "PTPIP", "Direct", "SCSI", "Other"}
DeviceTypes == {"Camera", "Audio"}
DriverStatuses == {"Production", "Testing", "Experimental", "Deprecated"}

\* the match of port_type with its last arm reduced to GP_PORT_NONE
match_port_type_nofallback(v) ==
    CASE v = GP_PORT_SERIAL          -> {"Serial"}
      [] v = GP_PORT_USB             -> {"USB"}
      [] v = GP_PORT_DISK            -> {"Disk"}
      [] v = GP_PORT_PTPIP           -> {"PTPIP"}
      [] v = GP_PORT_USB_DISK_DIRECT -> {"Direct"}
      [] v = GP_PORT_USB_SCSI        -> {"SCSI"}
      [] v = GP_PORT_NONE            -> {"Other"}
      [] OTHER                       -> Undefined(PortTypes)

\* the match in Port::port_type: its last arm is GP_PORT_NONE | _
match_port_type(v) ==
    CASE v = GP_PORT_SERIAL          -> {"Serial"}
      [] v = GP_PORT_USB             -> {"USB"}
      [] v = GP_PORT_DISK            -> {"Disk"}
      [] v = GP_PORT_PTPIP           -> {"PTPIP"}
      [] v = GP_PORT_USB_DISK_DIRECT -> {"Direct"}
      [] v = GP_PORT_USB_SCSI        -> {"SCSI"}
      [] OTHER                       -> {"Other"}

\* the match in Abilities::device_type
match_device_type(v) ==
    CASE v = GP_DEVICE_STILL_CAMERA -> {"Camera"}
      [] v = GP_DEVICE_AUDIO_PLAYER -> {"Audio"}
      [] OTHER                      -> Undefined(DeviceTypes)

\* the match in Abilities::driver_status
match_driver_status(v) ==
    CASE v = GP_DRIVER_STATUS_PRODUCTION   -> {"Production"}
      [] v = GP_DRIVER_STATUS_TESTING      -> {"Testing"}
      [] v = GP_DRIVER_STATUS_EXPERIMENTAL -> {"Experimental"}
      [] v = GP_DRIVER_STATUS_DEPRECATED   -> {"Deprecated"}
      [] OTHER                             -> Undefined(DriverStatuses)

EnumDecoders == {"port_type", "storage_type", "filesystem_type", "access_type",
                 "device_type", "driver_status"}

\* the outcomes the decoder named d may have on the native value v
DecodeEnum(d, v) ==
    CASE d = "port_type"       -> match_port_type(v)
      [] d = "storage_type"    -> match_storage_type(v)
      [] d = "filesystem_type" -> match_fstype(v)
      [] d = "access_type"     -> match_access(v)
      [] d = "device_type"     -> match_device_type(v)
      [] d = "driver_status"   -> match_driver_status(v)

\* the variants of the result type of the decoder named d
Variants(d) ==
    CASE d = "port_type"       -> PortTypes
      [] d = "storage_type"    -> StorageTypes
      [] d = "filesystem_type" -> FilesystemTypes
      [] d = "access_type"     -> AccessTypes
      [] d = "device_type"     -> DeviceTypes
      [] d = "driver_status"   -> DriverStatuses

\* the largest native value explored: one past the largest known constant
EnumSpan == 65

InitEnum ==
    /\ Quiet
    /\ \E d \in EnumDecoders, v \in 0..EnumSpan : arg = [d |-> d, v |-> v]
    /\ ret = <<>>

\* the native value is decoded
DecodeValue ==
    /\ ret = <<>>
    /\ \E r \in DecodeEnum(arg.d, arg.v) : ret' = <<r>>
    /\ UNCHANGED <<handleVars, fileVars, bufVars, panicked, last, calls, arg>>

NextEnum == DecodeValue

SpecEnum == InitEnum /\ [][NextEnum]_vars

----------------------------------------------------------------------------
\* LibraryVersion (version.rs): the version table of the native library.

\* the longest table explored
MaxTable == 6

\* the number of entries LibraryVersion::new asks for
MinEntries == 5

\* the words the library puts in its table, as NUL-terminated strings
VersionWords == {<<65, 0>>, <<66, 65, 0>>}

\* the null pointer that ends the table
NullEntry == <<>>

\* the tables gp_library_version may answer: words, then the terminator
Tables == UNION {[1..n -> VersionWords] : n \in 0..MaxTable}

\* *ptr.offset(i): the pointer in slot i of the table, counted from 0
Slot(table, i) == IF i < Len(table) THEN table[i + 1] ELSE NullEntry

\* while !(*ptr.offset(len)).is_null() { len += 1 }
RECURSIVE scan(_, _)
scan(table, len) ==
    IF Slot(table, len) = NullEntry THEN len ELSE scan(table, len + 1)

\* a length check that accepts every table
assert_len_removed(len) == TRUE

\* assert!(len >= 5)
assert_len(len) == len >= MinEntries

\* LibraryVersion::new: the value built, the slots scanned and the entries
\* whose string was read
LibraryVersion_new(table) ==
    LET len == scan(table, 0) IN
    IF assert_len(len)
    THEN [res |-> "ok",
          strings |-> [i \in 1..MinEntries |-> to_bytes(Slot(table, i - 1))],
          scanned |-> len + 1,
          deref |-> 0..(MinEntries - 1)]
    ELSE [res |-> "panic", strings |-> <<>>, scanned |-> len + 1, deref |-> {}]

InitVersion ==
    /\ Quiet
    /\ arg \in Tables
    /\ ret = <<>>

\* libgphoto2_version()
LibraryVersion ==
    /\ ret = <<>>
    /\ ~panicked
    /\ ret' = <<LibraryVersion_new(arg)>>
    /\ panicked' = (LibraryVersion_new(arg).res = "panic")
    /\ UNCHANGED <<handleVars, fileVars, bufVars, last, calls, arg>>

NextVersion == LibraryVersion

SpecVersion == InitVersion /\ [][NextVersion]_vars

----------------------------------------------------------------------------
\* summary / manual / about_driver followed from the native call to the
\* caller's reading of the String.

\* the length of the text array inside a CameraText
TextLen == 3

\* the arrays the library may leave behind on success: it always writes a
\* NUL-terminated text
Texts == {t \in [1..TextLen -> Bytes] : \E i \in 1..TextLen : t[i] = 0}

\* the byte strings of length n that hold no NUL
Contents(n) == [1..n -> Bytes \ {0}]

\* what reading a String gives: the bytes of its buffer while the storage
\* is still there, anything of the same length once the storage is gone
ReadBytes(buf, bytes) ==
    IF \E i \in 1..Len(buf.released) : buf.released[i] = "CameraText"
    THEN Contents(Len(bytes))
    ELSE {bytes}

InitText ==
    /\ Quiet
    /\ \E st \in NativeStatuses, text \in Texts :
          arg = [op |-> "", st |-> st, text |-> text]
    /\ ret = <<>>

\* Camera::summary / manual / about_driver up to its return
TextCall ==
    /\ ret = <<>>
    /\ \E op \in TextOps :
        /\ arg' = [arg EXCEPT !.op = op]
        /\ IF ~try_unsafe(arg.st)
           THEN ret' = <<[res |-> "err", err |-> arg.st, kind |-> kind(arg.st),
                          read |-> TRUE, value |-> <<>>]>>
           ELSE IF ValidUtf8(to_bytes(arg.text))
           THEN ret' = <<[res |-> "ok", err |-> GP_OK, kind |-> "none",
                          read |-> FALSE, value |-> <<>>]>>
           ELSE ret' = <<[res |-> "err", err |-> GP_ERROR_CORRUPTED_DATA,
                          kind |-> kind(GP_ERROR_CORRUPTED_DATA),
                          read |-> TRUE, value |-> <<>>]>>
    /\ UNCHANGED <<handleVars, fileVars, bufVars, panicked, last, calls>>

\* the caller reads the String it was given
TextRead ==
    /\ ret # <<>>
    /\ ~ret[1].read
    /\ \E v \in ReadBytes(camera_text_to_string(TRUE, arg.text), to_bytes(arg.text)) :
          ret' = <<[ret[1] EXCEPT !.read = TRUE, !.value = v]>>
    /\ UNCHANGED <<handleVars, fileVars, bufVars, panicked, last, calls, arg>>

NextText == TextCall \/ TextRead

SpecText == InitText /\ [][NextText]_vars

----------------------------------------------------------------------------
\* The error classification exercised on its own: an Error is built from a
\* status code (error::from_libgphoto2) and asked for its kind.

Codes == (0 - CodeSpan)..CodeSpan

InitKind ==
    /\ NothingAcquired
    /\ fs = [p \in Paths |-> NoFile]
    /\ calls = <<>>
    /\ arg \in Codes
    /\ ret = "none"

\* Error::kind called on the Error holding arg
ErrorKind ==
    /\ ret = "none"
    /\ ret' = kind(arg)
    /\ UNCHANGED <<handleVars, fileVars, bufVars, panicked, last, calls, arg>>

NextKind == ErrorKind

SpecKind == InitKind /\ [][NextKind]_vars

----------------------------------------------------------------------------
\* The access each operation's signature asks of the Camera and the Context
\* it is given, and what the borrow rules let be in progress together.

\* storage taking the camera by shared reference
AccessStorageShared(op) ==
    CASE op = "autodetect"   -> [camera |-> "none",   context |-> "mut"]
      [] op = "port"         -> [camera |-> "shared", context |-> "none"]
      [] op = "abilities"    -> [camera |-> "shared", context |-> "none"]
      [] op = "storage"      -> [camera |-> "shared", context |-> "mut"]
      [] op = "summary"      -> [camera |-> "mut",    context |-> "mut"]
      [] op = "manual"       -> [camera |-> "mut",    context |-> "mut"]
      [] op = "about_driver" -> [camera |-> "mut",    context |-> "mut"]

\* camera.rs: autodetect(context: &mut Context); port(&'a self);
\* abilities(&self); storage / summary / manual / about_driver
\* (&mut self, context: &mut Context)
Access(op) ==
    CASE op = "autodetect"   -> [camera |-> "none",   context |-> "mut"]
      [] op = "port"         -> [camera |-> "shared", context |-> "none"]
      [] op = "abilities"    -> [camera |-> "shared", context |-> "none"]
      [] op = "storage"      -> [camera |-> "mut",    context |-> "mut"]
      [] op = "summary"      -> [camera |-> "mut",    context |-> "mut"]
      [] op = "manual"       -> [camera |-> "mut",    context |-> "mut"]
      [] op = "about_driver" -> [camera |-> "mut",    context |-> "mut"]

Ops == {"autodetect", "port", "abilities", "storage", "summary", "manual",
        "about_driver"}

\* the calls a caller can write: each names the values its signature takes
Calls ==
    {[op |-> op, camera |-> c, context |-> x] :
        op \in Ops, c \in cameras \cup {NULL}, x \in contexts \cup {NULL}}

WellFormed(call) ==
    /\ (call.camera = NULL) = (Access(call.op).camera = "none")
    /\ (call.context = NULL) = (Access(call.op).context = "none")

\* two borrows of one value can be held together only when both are shared
Compatible(m1, m2) == m1 = "none" \/ m2 = "none" \/ (m1 = "shared" /\ m2 = "shared")

\* the borrow rules let `call` begin while `other` is in progress
MayOverlap(call, other) ==
    /\ (call.camera = other.camera /\ call.camera # NULL)
           => Compatible(Access(call.op).camera, Access(other.op).camera)
    /\ (call.context = other.context /\ call.context # NULL)
           => Compatible(Access(call.op).context, Access(other.op).context)

Threads == 1..MaxCalls

\* two contexts and two cameras have been made and nothing is in progress
InitAccess ==
    /\ objs = [h \in 1..4 |->
                [type |-> IF h <= 2 THEN "context" ELSE "camera", unrefs |-> 0,
                 ctx |-> IF h <= 2 THEN NULL ELSE h - 2, fd |-> 0]]
    /\ nextId = 5
    /\ wild = 0
    /\ contexts = {1, 2}
    /\ cameras = {3, 4}
    /\ ports = {}
    /\ medias = {}
    /\ fs = [p \in Paths |-> NoFile]
    /\ fds = <<>>
    /\ bufs = <<>>
    /\ strings = {}
    /\ vecs = {}
    /\ panicked = FALSE
    /\ last = Result("none", <<>>, "ok", GP_OK)
    /\ calls = [t \in Threads |-> Idle]
    /\ arg = 0
    /\ ret = "none"

\* a thread enters an operation: the borrows its signature takes must be
\* available, against the calls in progress and the live Port views
Begin ==
    /\ \E t \in Threads, call \in Calls :
        /\ calls[t] = Idle
        /\ WellFormed(call)
        /\ \A u \in Threads \ {t} : calls[u] # Idle => MayOverlap(call, calls[u])
        /\ Access(call.op).camera = "mut" => ~CameraBorrowed(call.camera)
        /\ calls' = [calls EXCEPT ![t] = call]
    /\ UNCHANGED <<handleVars, fileVars, bufVars, panicked, last, arg, ret>>

\* the operation returns; port leaves a Port view borrowing the camera
End ==
    /\ \E t \in Threads :
        /\ calls[t] # Idle
        /\ calls' = [calls EXCEPT ![t] = Idle]
        /\ ports' = IF calls[t].op = "port"
                    THEN ports \cup {from_libgphoto2(calls[t].camera, calls[t].camera)}
                    ELSE ports
    /\ UNCHANGED <<objs, nextId, wild, contexts, cameras, medias, fileVars, bufVars,
                   panicked, last, arg, ret>>

\* a Port view goes out of scope
EndPort ==
    /\ \E p \in ports : ports' = ports \ {p}
    /\ UNCHANGED <<objs, nextId, wild, contexts, cameras, medias, fileVars, bufVars,
                   panicked, last, calls, arg, ret>>

NextAccess == Begin \/ End \/ EndPort

SpecAccess == InitAccess /\ [][NextAccess]_vars

----------------------------------------------------------------------------
Next ==
    \/ ContextNew
    \/ DropContext
    \/ CameraAutodetect
    \/ CameraPort
    \/ PortRead
    \/ DropPort
    \/ CameraAbilities
    \/ DropCamera
    \/ CameraStorage
    \/ CameraText
    \/ DropString
    \/ DropVec
    \/ FileMediaCreate
    \/ DropMedia

Spec == Init /\ [][Next]_vars

----------------------------------------------------------------------------
\* Properties.

\* the handle is held by a live owning value
Owned(h) == h \in contexts \cup cameras \cup medias

\* C1: every native resource that was acquired is still unreleased while the
\* value owning it lives and has been released exactly once as soon as that
\* value is gone (so, after every value is destroyed, each was released
\* exactly once and none is left), and no release is ever made on a pointer
\* that names no acquired resource.
C1_ReleasedExactlyOnce ==
    /\ wild = 0
    /\ \A h \in contexts \cup cameras \cup medias : h \in DOMAIN objs
    /\ \A h \in DOMAIN objs :
        /\ objs[h].unrefs = IF Owned(h) THEN 0 ELSE 1
        /\ h \in contexts => objs[h].type = "context"
        /\ h \in cameras => objs[h].type = "camera"
        /\ h \in medias => objs[h].type = "file"

\* every value has been destroyed after a context, a camera and a file
\* object were all acquired
C1_Witness ==
    /\ contexts = {} /\ cameras = {} /\ medias = {}
    /\ \A t \in {"context", "camera", "file"} :
        \E h \in DOMAIN objs : objs[h].type = t /\ objs[h].unrefs = 1

\* C2: when gp_camera_new succeeds and gp_camera_init answers a non-OK
\* status, autodetect returns Err with that status and the handle has been
\* released exactly once when the caller goes on; when both succeed the
\* handle stays unreleased for as long as the Camera returned lives.
C2_AutodetectInitFailure ==
    /\ (last.op = "autodetect" /\ Len(last.sts) = 2 /\ last.sts[1] = GP_OK) =>
          IF last.sts[2] # GP_OK
          THEN /\ last.res = "err"
               /\ last.err = last.sts[2]
               /\ last.h \in DOMAIN objs
               /\ objs[last.h].unrefs = 1
               /\ last.h \notin cameras
          ELSE /\ last.res = "ok"
               /\ last.h \in cameras
    /\ \A c \in cameras : Live(objs, c)

\* autodetect has just failed in gp_camera_init after gp_camera_new succeeded
C2_Witness ==
    /\ last.op = "autodetect"
    /\ last.sts = <<GP_OK, GP_ERROR_NOT_SUPPORTED>>
    /\ last.res = "err"
    /\ objs[last.h].unrefs = 1

\* the kinds the documentation gives for the twelve recognized codes
DocumentedKinds ==
    {<<GP_ERROR_CORRUPTED_DATA, "CorruptedData">>,
     <<GP_ERROR_MODEL_NOT_FOUND, "ModelNotFound">>,
     <<GP_ERROR_FILE_EXISTS, "FileExists">>,
     <<GP_ERROR_DIRECTORY_EXISTS, "DirectoryExists">>,
     <<GP_ERROR_DIRECTORY_NOT_FOUND, "DirectoryNotFound">>,
     <<GP_ERROR_FILE_NOT_FOUND, "FileNotFound">>,
     <<GP_ERROR_CAMERA_BUSY, "CameraBusy">>,
     <<GP_ERROR_PATH_NOT_ABSOLUTE, "PathNotAbsolute">>,
     <<GP_ERROR_CANCEL, "Cancel">>,
     <<GP_ERROR_CAMERA_ERROR, "CameraError">>,
     <<GP_ERROR_OS_FAILURE, "OSFailure">>,
     <<GP_ERROR_NO_SPACE, "NoSpace">>}

ResultOps == {"autodetect", "storage", "summary", "manual", "about_driver", "create"}
PlainOps == {"port", "abilities", "port_type", "name", "path"}

\* the operation met a non-OK native status
MetFailure == \E i \in 1..Len(last.sts) : last.sts[i] # GP_OK

\* C4 as stated: a non-OK status met by any of the listed operations ends it
\* with Err mapped from that status, and none of them panics.
C4_EveryFailureIsErr ==
    /\ ~panicked
    /\ (last.op \in ResultOps \cup PlainOps /\ MetFailure) =>
          (last.res = "err" /\ last.err = last.sts[Len(last.sts)])

\* C4 amended: a non-OK status met by autodetect, storage, summary, manual,
\* about_driver or FileMedia::create ends the operation at that call with
\* Err mapped from that status, and these never panic; port, abilities and
\* the Port accessors have no error to return and panic on a non-OK status.
C4_FailureIsErrOrPanic ==
    /\ (last.op \in ResultOps /\ MetFailure) =>
          /\ last.res = "err"
          /\ last.err = last.sts[Len(last.sts)]
          /\ \A i \in 1..(Len(last.sts) - 1) : last.sts[i] = GP_OK
    /\ last.op \in ResultOps => last.res # "panic"
    /\ (last.op \in PlainOps /\ MetFailure) => (last.res = "panic" /\ panicked)
    /\ panicked => last.op \in PlainOps \cup {"drop"}

\* FileMedia::create has just returned the status the library rejected the
\* descriptor with
C4_Witness ==
    /\ last.op = "create"
    /\ last.sts = <<GP_ERROR_CAMERA_BUSY>>
    /\ last.res = "err"
    /\ last.err = GP_ERROR_CAMERA_BUSY

\* C5: no operation reads, wraps or adopts an output of a native call whose
\* status was not GP_OK: nothing uninitialized is read, an operation that
\* met a non-OK status returns no value, and no value holds an output the
\* library did not write.
C5_OutputReadAfterCheck ==
    /\ ~last.uninitRead
    /\ MetFailure => last.res # "ok"
    /\ \A b \in DOMAIN bufs : bufs[b].what # "uninit"
    /\ \A p \in ports : p.inner = p.camera

\* storage has just ended on a non-OK status, adopting nothing
C5_Witness ==
    /\ last.op = "storage"
    /\ last.sts = <<GP_ERROR_NOT_SUPPORTED>>
    /\ last.res = "err"
    /\ last.buf = 0

\* C6: FileMedia::create on a path that exists returns an error of kind
\* FileExists and leaves the file as it was; on a path that does not exist,
\* with the library accepting the descriptor, it returns Ok and the path
\* names an empty file.
C6_ExclusiveCreate ==
    (last.op = "create" /\ last.path \in Paths) =>
        /\ last.pre.exists =>
              /\ last.res = "err"
              /\ last.kind = "FileExists"
              /\ fs[last.path] = last.pre
        /\ (~last.pre.exists /\ last.fd # 0 /\ last.sts = <<GP_OK>>) =>
              /\ last.res = "ok"
              /\ fs[last.path].exists
              /\ Len(fs[last.path].data) = 0

\* create has just been refused on a path that held data
C6_Witness ==
    /\ last.op = "create"
    /\ last.pre.exists
    /\ Len(last.pre.data) > 0
    /\ last.kind = "FileExists"

\* the file objects the library made from descriptor fd
FileObjectsOf(fd) == {h \in DOMAIN objs : objs[h].type = "file" /\ objs[h].fd = fd}

\* C7: every descriptor opened by FileMedia::create is closed at most once;
\* one the library rejected has been closed by the binding and belongs to no
\* FileMedia; one the library accepted is never closed by the binding, and
\* is closed by the library's unref exactly when its FileMedia is destroyed.
C7_DescriptorClosedOnce ==
    \A fd \in DOMAIN fds :
        /\ fds[fd].byBinding + fds[fd].byLibrary <= 1
        /\ Cardinality(FileObjectsOf(fd)) <= 1
        /\ FileObjectsOf(fd) = {} => (fds[fd].byBinding = 1 /\ fds[fd].byLibrary = 0)
        /\ \A h \in FileObjectsOf(fd) :
              /\ fds[fd].byBinding = 0
              /\ fds[fd].byLibrary = objs[h].unrefs
              /\ fds[fd].byLibrary = IF h \in medias THEN 0 ELSE 1

\* one descriptor was rejected and closed by the binding, another was
\* accepted and closed when its FileMedia was destroyed
C7_Witness ==
    /\ \E fd \in DOMAIN fds : FileObjectsOf(fd) = {} /\ fds[fd].byBinding = 1
    /\ \E fd \in DOMAIN fds : FileObjectsOf(fd) # {} /\ fds[fd].byLibrary = 1

\* C8: a buffer taken into caller ownership has exactly one owner, who
\* frees it exactly once; no second party owns or frees it.
C8_SingleOwner ==
    \A b \in DOMAIN bufs :
        /\ Cardinality(bufs[b].owners) = 1
        /\ Len(bufs[b].released) <= 1
        /\ \A i \in 1..Len(bufs[b].released) : bufs[b].released[i] \in bufs[b].owners
        /\ (b \in strings \cup vecs) => Len(bufs[b].released) = 0

\* C9: a live Port implies the Camera whose port information it points to
\* has not been released, so no Port accessor reads a released camera.
C9_PortWithinCamera ==
    /\ \A p \in ports : Live(objs, p.inner) /\ p.inner \in cameras
    /\ ~last.stale

\* a Port accessor has just read a Port after another camera was destroyed
C9_Witness ==
    /\ last.op \in PortAccessors
    /\ last.res = "ok"
    /\ ports # {}
    /\ \E h \in DOMAIN objs : objs[h].type = "camera" /\ objs[h].unrefs = 1

StateChanging == {"autodetect", "storage", "summary", "manual", "about_driver"}
Queries == {"abilities", "port"}

\* C10: no two state-changing operations are in progress together on the
\* same Context or the same Camera, and no abilities or port query is in
\* progress together with a state-changing operation on the same Camera.
C10_ExclusiveAccess ==
    \A t \in DOMAIN calls, u \in DOMAIN calls :
        (t # u /\ calls[t] # Idle /\ calls[u] # Idle /\ calls[t].op \in StateChanging) =>
            /\ calls[u].op \in StateChanging =>
                  /\ calls[t].context # calls[u].context
                  /\ (calls[t].camera = NULL \/ calls[t].camera # calls[u].camera)
            /\ calls[u].op \in Queries => calls[t].camera # calls[u].camera

\* two state-changing operations are in progress together, on different
\* cameras and contexts
C10_Witness ==
    \E t \in DOMAIN calls, u \in DOMAIN calls :
        /\ t # u
        /\ calls[t].op = "storage"
        /\ calls[u].op = "summary"

\* C11: Context::new returns Ok with a Context owning the handle exactly when
\* gp_context_new answers a non-null handle, and Err built from
\* GP_ERROR_NO_MEMORY exactly when it answers null; no Context ever holds the
\* null handle and no release is made on it.
C11_ContextNew ==
    /\ NULL \notin contexts
    /\ wild = 0
    /\ last.op = "Context::new" =>
          IF last.h # NULL
          THEN last.res = "ok" /\ last.h \in contexts /\ Live(objs, last.h)
          ELSE last.res = "err" /\ last.err = GP_ERROR_NO_MEMORY

\* Context::new has just failed on a null handle while an earlier Context lives
C11_Witness ==
    /\ last.op = "Context::new"
    /\ last.h = NULL
    /\ last.res = "err"
    /\ contexts # {}

\* the presence bit the library documents for each Storage field, and the
\* slot the field is read from
FieldBit ==
    [f \in StorageFields |->
        CASE f = "base_dir" -> 0 [] f = "label" -> 1 [] f = "description" -> 2
          [] f = "access_type" -> 3 [] f = "storage_type" -> 4
          [] f = "filesystem_type" -> 5 [] f = "capacity_kbytes" -> 6
          [] f = "free_kbytes" -> 7 [] f = "free_images" -> 8]

FieldPresent(f, mask) == (mask \div (2^FieldBit[f])) % 2 = 1

\* the value a field's slot decodes to, for the fields whose decoding is
\* total: the text before the first NUL, or the number itself
SlotValue(f, inner) ==
    CASE f = "base_dir"        -> {from_utf8_lossy(to_bytes(inner.basedir))}
      [] f = "label"           -> {from_utf8_lossy(to_bytes(inner.label))}
      [] f = "description"     -> {from_utf8_lossy(to_bytes(inner.description))}
      [] f = "capacity_kbytes" -> {inner.capacitykbytes}
      [] f = "free_kbytes"     -> {inner.freekbytes}
      [] f = "free_images"     -> {inner.freeimages}
      [] f = "storage_type"    -> match_storage_type(inner.storage_type)
      [] f = "filesystem_type" -> match_fstype(inner.fstype)
      [] f = "access_type"     -> match_access(inner.access)

\* C12: each of the nine Storage accessors returns None whenever its own
\* presence bit is unset, whatever its slot and the other bits hold, and Some
\* of the slot's decoded value whenever the bit is set.
C12_FieldGatedByMask ==
    ret # <<>> =>
        IF FieldPresent(arg.f, arg.inner.fields)
        THEN ret[1].some /\ ret[1].value \in SlotValue(arg.f, arg.inner)
        ELSE ~ret[1].some

\* label was asked for with only the bits of other fields set, over a slot
\* that holds text
C12_Witness ==
    /\ ret # <<>>
    /\ arg.f = "label"
    /\ arg.inner.fields = 2^FieldBits - 1 - GP_STORAGEINFO_LABEL
    /\ arg.inner.label = <<195, 169, 0>>
    /\ ~ret[1].some

\* C13: summary, manual and about_driver return Ok with a string equal to
\* exactly the bytes before the first NUL when the native call succeeds and
\* those bytes are valid UTF-8, an error of kind CorruptedData when they are
\* not, and the error mapped from the status when the native call fails.
C13_TextResult ==
    (ret # <<>> /\ ret[1].read) =>
        IF arg.st # GP_OK
        THEN ret[1].res = "err" /\ ret[1].err = arg.st
        ELSE IF ValidUtf8(to_bytes(arg.text))
        THEN ret[1].res = "ok" /\ ret[1].value = to_bytes(arg.text)
        ELSE ret[1].res = "err" /\ ret[1].kind = "CorruptedData"

\* C14: port_types, camera_operations, file_operations and folder_operations
\* are monotonic in the mask: every flag decoded from m is also decoded
\* from m | b for every further bit b, and the mask 0 decodes to the empty
\* set.
C14_DecodersMonotonic ==
    ret # <<>> =>
        /\ ret[1].of_m \subseteq ret[1].of_mb
        /\ arg.m = 0 => ret[1].of_m = {}

\* a bit was added to a mask that already decoded to some flag, and the
\* larger mask decodes to one flag more
C14_Witness ==
    /\ ret # <<>>
    /\ ret[1].of_m # {}
    /\ ret[1].of_mb # ret[1].of_m
    /\ ret[1].of_m \subseteq ret[1].of_mb

\* the bit the library assigns to each flag of each decoder, by position
FlagBit ==
    [d \in Decoders |->
        CASE d = "port_types" ->
                {<<"Serial", 0>>, <<"USB", 2>>, <<"Disk", 3>>, <<"PTPIP", 4>>,
                 <<"Direct", 5>>, <<"SCSI", 6>>}
          [] d = "camera_operations" ->
                {<<"CaptureImage", 0>>, <<"CaptureVideo", 1>>, <<"CaptureAudio", 2>>,
                 <<"CapturePreview", 3>>, <<"Config", 4>>, <<"TriggerCapture", 5>>}
          [] d = "file_operations" ->
                {<<"Delete", 1>>, <<"Preview", 3>>, <<"Raw", 4>>, <<"Audio", 5>>,
                 <<"EXIF", 6>>}
          [] d = "folder_operations" ->
                {<<"DeleteAll", 0>>, <<"PutFile", 1>>, <<"MakeDirectory", 2>>,
                 <<"RemoveDirectory", 3>>}]

BitSet(mask, i) == (mask \div (2^i)) % 2 = 1

\* the flags whose own bit is set in the mask
FlagsOf(d, mask) == {fb[1] : fb \in {x \in FlagBit[d] : BitSet(mask, x[2])}}

\* the bit added to the mask is not a known bit of the decoder
UnknownBit(d, b) == \A fb \in FlagBit[d] : 2^(fb[2]) # b

\* C15: the four decoders ignore unrecognized bits: a flag is in the result
\* if and only if its own known bit is set, so two masks that agree on every
\* known bit decode to the same set, and a mask made only of unknown bits
\* decodes to the empty set.
C15_UnknownBitsIgnored ==
    ret # <<>> =>
        /\ ret[1].of_m = FlagsOf(arg.d, arg.m)
        /\ ret[1].of_mb = FlagsOf(arg.d, BitOr(arg.m, arg.b))
        /\ UnknownBit(arg.d, arg.b) => ret[1].of_mb = ret[1].of_m
        /\ (\A fb \in FlagBit[arg.d] : ~BitSet(arg.m, fb[2])) => ret[1].of_m = {}

\* file_operations decoded a mask made of the three bits it does not know
\* (1, 4 and 128) to the empty set
C15_Witness ==
    /\ ret # <<>>
    /\ arg.d = "file_operations"
    /\ arg.m = 5
    /\ arg.b = 128
    /\ ret[1].of_mb = {}

\* the position of the first zero entry, one past the end when there is none
FirstZero(a) ==
    IF \E i \in 1..Len(a) : a[i] = 0
    THEN CHOOSE i \in 1..Len(a) : a[i] = 0 /\ \A j \in 1..(i - 1) : a[j] # 0
    ELSE Len(a) + 1

\* C16: speeds returns exactly the entries of the speed array that precede
\* its first zero entry, in array order: no zero in the result, nothing
\* from after a zero, empty when the first entry is zero, the whole array
\* when no entry is zero. Each entry is returned as the usize of the same
\* bit pattern, equal to the entry when it is not negative.
C16_SpeedsUpToFirstZero ==
    ret # <<>> =>
        LET r == ret[1] IN
        /\ Len(r) = FirstZero(arg) - 1
        /\ \A i \in 1..Len(r) :
              /\ r[i] # 0
              /\ (r[i] - arg[i]) % (2^UsizeBits) = 0
              /\ arg[i] >= 0 => r[i] = arg[i]
        /\ arg[1] = 0 => r = <<>>
        /\ (\A i \in 1..Len(arg) : arg[i] # 0) => Len(r) = Len(arg)

\* a speed, then a zero, then another speed: only the first is returned
C16_Witness ==
    /\ ret # <<>>
    /\ arg[1] = 2 /\ arg[2] = 0 /\ arg[3] = 1
    /\ ret[1] = <<2>>

\* the constants the native library defines for each value, with the
\* variant documented for each
KnownVariant ==
    [d \in EnumDecoders |->
        CASE d = "port_type" ->
                {<<1, "Serial">>, <<4, "USB">>, <<8, "Disk">>, <<16, "PTPIP">>,
                 <<32, "Direct">>, <<64, "SCSI">>}
          [] d = "storage_type" ->
                {<<0, "Unknown">>, <<1, "FixedRom">>, <<2, "RemovableRom">>,
                 <<3, "FixedRam">>, <<4, "RemoveableRam">>}
          [] d = "filesystem_type" ->
                {<<0, "Unknown">>, <<1, "Flat">>, <<2, "Hierarchical">>, <<3, "DCF">>}
          [] d = "access_type" ->
                {<<0, "ReadWrite">>, <<1, "ReadOnly">>, <<2, "ReadDelete">>}
          [] d = "device_type" -> {<<0, "Camera">>, <<1, "Audio">>}
          [] d = "driver_status" ->
                {<<0, "Production">>, <<1, "Testing">>, <<2, "Experimental">>,
                 <<3, "Deprecated">>}]

IsKnown(d, v) == \E kv \in KnownVariant[d] : kv[1] = v

Fallbacks == {"Unknown", "Other"}

\* the decoders the fallback is claimed for
WithFallback == {"port_type", "storage_type", "filesystem_type", "access_type"}

\* C17 as stated: for port type, storage type, filesystem type and access
\* type every native value outside the known constants decodes to an
\* Unknown/Other variant and every known constant to its own variant;
\* device type and driver status have no fallback variant.
C17_FallbackForUnknownValues ==
    /\ \A d \in EnumDecoders \ WithFallback : Variants(d) \cap Fallbacks = {}
    /\ ret # <<>> =>
        /\ \A kv \in KnownVariant[arg.d] : kv[1] = arg.v => ret[1] = kv[2]
        /\ (arg.d \in WithFallback /\ ~IsKnown(arg.d, arg.v)) => ret[1] \in Fallbacks

\* C17: every known constant decodes to its own variant; port type alone
\* has a catch-all arm, so every other port value decodes to Other; storage
\* type and filesystem type give Unknown for the library's own catch-all
\* constant (0) only; access type, device type and driver status have no
\* Unknown/Other variant.
C17_KnownValuesAndPortFallback ==
    /\ \A d \in {"access_type", "device_type", "driver_status"} :
          Variants(d) \cap Fallbacks = {}
    /\ ret # <<>> =>
        /\ \A kv \in KnownVariant[arg.d] : kv[1] = arg.v => ret[1] = kv[2]
        /\ (arg.d = "port_type" /\ ~IsKnown(arg.d, arg.v)) => ret[1] = "Other"
        /\ (arg.d \in {"storage_type", "filesystem_type"} /\ ret[1] = "Unknown"
              /\ IsKnown(arg.d, arg.v)) => arg.v = 0
        /\ arg.d = "access_type" => ret[1] \notin Fallbacks

\* a port value that is none of the constants was decoded to Other
C17_Witness ==
    /\ ret # <<>>
    /\ arg.d = "port_type"
    /\ arg.v = 2
    /\ ret[1] = "Other"

\* the text of a table entry: the word without its terminating NUL
Word(entry) == SubSeq(entry, 1, Len(entry) - 1)

C19_FileExistsOnlyIfExisted ==
    (last.op = "create" /\ last.res = "err" /\ last.kind = "FileExists") =>
        (last.pre.exists /\ last.errno = "EEXIST")

\* the Camera operations that take a Context
ContextOps == {"autodetect", "storage", "summary", "manual", "about_driver"}

\* C20 as stated: a Context is never released while a Camera initialized
\* against it is still alive, and no Camera operation is invoked with a
\* released Context.
C20_ContextOutlivesCamera ==
    /\ \A c \in cameras : Live(objs, c) => Live(objs, objs[c].ctx)
    /\ last.op \in ContextOps => ~last.stale

\* C20: every Camera operation is invoked with a Context that has not been
\* released, and every Context value still in scope holds a live native
\* context; the Context a Camera was initialized against may be released
\* before the Camera.
C20_OperationsUseLiveContext ==
    /\ \A x \in contexts : Live(objs, x)
    /\ last.op \in ContextOps => ~last.stale

\* storage succeeded on a Camera whose own Context had been released, with
\* another Context
C20_Witness ==
    /\ last.op = "storage"
    /\ last.res = "ok"
    /\ ~last.stale
    /\ last.h \in cameras
    /\ ~Live(objs, objs[last.h].ctx)

====
